---- MODULE Spec2Model ----
(***************************************************************************)
(* Model of the quiz bot: the progress coordinator (getUserProgress,       *)
(* saveUserProgress over the sync.Map progressCache and the user_progress  *)
(* table), the dispatch engine (getNextTask, findTask, answer evaluation)  *)
(* and the handlers that drive them (handleCommand, handleTaskCommand,     *)
(* handleCallbackQuery, showProgress).                                     *)
(*                                                                         *)
(* The repository holds two programs with the same handlers:               *)
(*   src/main.go          progress in PostgreSQL, progressCache in front   *)
(*                        of it ("reconciled");                            *)
(*   src/unnamed/part_000 progress only in progressCache ("cacheonly").    *)
(* The variable variant says which of the two is running.                  *)
(*                                                                         *)
(* Strings are sequences of characters (one-character strings), so that    *)
(* splitting, parsing and comparing are computed, not assumed.  A Go       *)
(* map[int]bool is a record [yes, no] of the keys mapped to true and the   *)
(* keys mapped to false.  Maps are heap objects: progressCache and the     *)
(* handlers hold references to them.                                       *)
(***************************************************************************)
EXTENDS Integers, Sequences, FiniteSets, Bags, TLC

(***************************************************************************)
(* Bounds of the model.                                                    *)
(***************************************************************************)
\* chat/user identities that send updates
NUsers == 2
\* cap on the solved flags (rows of user_progress, or entries of the cached
\* maps) of a run with several users
MaxRows == 2

Users == 1..NUsers

\* processUpdates is the one goroutine that runs the handlers, one update
\* after the other
NWorkers == 1
Workers == 1..NWorkers

(***************************************************************************)
(* The task catalog (getTasks).  The Cyrillic letters of the last option   *)
(* of task 5 are the characters "cyrO" ... "cyra".                         *)
(***************************************************************************)
getTasks ==
    << [ID |-> 1, Answer |-> <<"v", "a", "r">>,
        Options |-> << <<"l", "e", "t">>,
                       <<"c", "o", "n", "s", "t">>,
                       <<"v", "a", "r">>,
                       <<"d", "e", "f", "i", "n", "e">> >>],
       [ID |-> 2, Answer |-> <<"i", "n", "t">>,
        Options |-> << <<"i", "n", "t", "e", "g", "e", "r">>,
                       <<"f", "l", "o", "a", "t">>,
                       <<"i", "n", "t">>,
                       <<"n", "u", "m", "b", "e", "r">> >>],
       [ID |-> 3, Answer |-> <<"s", "t", "r", "i", "n", "g">>,
        Options |-> << <<"c", "h", "a", "r">>,
                       <<"s", "t", "r", "i", "n", "g">>,
                       <<"t", "e", "x", "t">>,
                       <<"v", "a", "r", "c", "h", "a", "r">> >>],
       [ID |-> 4, Answer |-> <<"i", "m", "p", "o", "r", "t">>,
        Options |-> << <<"i", "n", "c", "l", "u", "d", "e">>,
                       <<"i", "m", "p", "o", "r", "t">>,
                       <<"u", "s", "e">>,
                       <<"r", "e", "q", "u", "i", "r", "e">> >>],
       [ID |-> 5, Answer |-> <<"2">>,
        Options |-> << <<"1">>,
                       <<"2">>,
                       <<"3">>,
                       <<"cyrO", "cyrsh", "cyri", "cyrb", "cyrk", "cyra">> >>] >>

\* the ids of the catalog
CatalogIds == {getTasks[i].ID : i \in 1..Len(getTasks)}

\* a nil *Task
NoTask == 0

(***************************************************************************)
(* String helpers: strings.SplitN(s, ":", 2), strconv.Atoi, "%d".          *)
(***************************************************************************)
Digits == <<"0", "1", "2", "3", "4", "5", "6", "7", "8", "9">>

IsDigit(c) == \E i \in 1..10 : Digits[i] = c

DigitVal(c) == (CHOOSE i \in 1..10 : Digits[i] = c) - 1

\* index of the first ":" of s, 0 when there is none
FirstColon(s) ==
    IF \E i \in 1..Len(s) : s[i] = ":"
    THEN CHOOSE i \in 1..Len(s) : s[i] = ":" /\ \A j \in 1..(i - 1) : s[j] # ":"
    ELSE 0

\* strings.SplitN(s, ":", 2): at most two parts, cut at the first ":"
SplitN2(s) ==
    LET k == FirstColon(s)
    IN  IF k = 0 THEN << s >>
        ELSE << SubSeq(s, 1, k - 1), SubSeq(s, k + 1, Len(s)) >>

\* the digits of strconv.Atoi's argument, after an optional sign
AtoiBody(s) ==
    IF Len(s) > 0 /\ s[1] \in {"+", "-"} THEN SubSeq(s, 2, Len(s)) ELSE s

RECURSIVE StripZeros(_)
\* the digits without their leading zeros
StripZeros(ds) ==
    IF Len(ds) > 0 /\ ds[1] = "0" THEN StripZeros(Tail(ds)) ELSE ds

\* the digits of the largest int (64 bit), 9223372036854775807
MaxIntDigits ==
    <<"9", "2", "2", "3", "3", "7", "2", "0", "3", "6", "8", "5", "4", "7", "7", "5",
      "8", "0", "7">>

\* the digits of the magnitude of the smallest int, -9223372036854775808
MinIntDigits == [MaxIntDigits EXCEPT ![Len(MaxIntDigits)] = "8"]

\* digit strings of the same length: a is not greater than b
DigitsLeq(a, b) ==
    \/ a = b
    \/ \E i \in 1..Len(a) :
            /\ DigitVal(a[i]) < DigitVal(b[i])
            /\ \A j \in 1..(i - 1) : a[j] = b[j]

\* strconv.ParseInt(s, 10, 0) does not return ErrRange: the value fits int
InIntRange(s) ==
    LET ds == StripZeros(AtoiBody(s))
        lim == IF s[1] = "-" THEN MinIntDigits ELSE MaxIntDigits
    IN  \/ Len(ds) < Len(lim)
        \/ Len(ds) = Len(lim) /\ DigitsLeq(ds, lim)

\* strconv.Atoi returns a nil error
AtoiOk(s) ==
    /\ Len(AtoiBody(s)) > 0
    /\ \A i \in 1..Len(AtoiBody(s)) : IsDigit(AtoiBody(s)[i])
    /\ InIntRange(s)

RECURSIVE DecVal(_)
DecVal(ds) ==
    IF Len(ds) = 0 THEN 0
    ELSE 10 * DecVal(SubSeq(ds, 1, Len(ds) - 1)) + DigitVal(ds[Len(ds)])

\* strconv.Atoi's value, for an argument it accepts
AtoiVal(s) ==
    IF s[1] = "-" THEN 0 - DecVal(AtoiBody(s)) ELSE DecVal(AtoiBody(s))

\* the digits of the largest integer TLC computes with, 2147483647
MaxModelDigits == <<"2", "1", "4", "7", "4", "8", "3", "6", "4", "7">>

\* the value of an argument strconv.Atoi accepts is one TLC can compute
InModelRange(s) ==
    LET ds == StripZeros(AtoiBody(s))
    IN  \/ Len(ds) < Len(MaxModelDigits)
        \/ Len(ds) = Len(MaxModelDigits) /\ DigitsLeq(ds, MaxModelDigits)

RECURSIVE Itoa(_)
\* fmt's %d of a natural number
Itoa(n) ==
    IF n < 10 THEN << Digits[n + 1] >>
    ELSE Itoa(n \div 10) \o << Digits[(n % 10) + 1] >>

\* sendTask's callbackData: fmt.Sprintf("%d:%s", task.ID, option)
CallbackData(id, option) == Itoa(id) \o <<":">> \o option

(***************************************************************************)
(* Dispatch engine.                                                        *)
(***************************************************************************)
\* a Go map[int]bool
EmptyMap == [yes |-> {}, no |-> {}]

\* variant of MapSet: the map is emptied before the key is set
MapSetFresh(m, k, v) ==
    IF v THEN [yes |-> {k}, no |-> {}] ELSE [yes |-> {}, no |-> {k}]

\* progress[k] = v
MapSet(m, k, v) ==
    IF v THEN [yes |-> m.yes \cup {k}, no |-> m.no \ {k}]
    ELSE [yes |-> m.yes \ {k}, no |-> m.no \cup {k}]

\* solved, exists := progress[k]
MapExists(m, k) == k \in m.yes \cup m.no

MapSolved(m, k) == k \in m.yes

RECURSIVE FindFrom(_, _)
\* findTask's loop from catalog index i: the index of the task, 0 when none
FindFrom(i, taskID) ==
    IF i > Len(getTasks) THEN 0
    ELSE IF getTasks[i].ID = taskID THEN i
    ELSE FindFrom(i + 1, taskID)

\* variant of findTask: an id the catalog does not have gives the first task
findTaskOrFirst(taskID) == IF FindFrom(1, taskID) = 0 THEN 1 ELSE FindFrom(1, taskID)

\* findTask: the catalog index of the task with this id, 0 for nil
findTask(taskID) == FindFrom(1, taskID)

RECURSIVE NextFromAbsentOnly(_, _)
\* variant of NextFrom: only a key missing from the map counts as unsolved
NextFromAbsentOnly(i, progress) ==
    IF i > Len(getTasks) THEN NoTask
    ELSE IF ~MapExists(progress, getTasks[i].ID) THEN getTasks[i].ID
    ELSE NextFromAbsentOnly(i + 1, progress)

RECURSIVE NextFrom(_, _)
\* getNextTask's loop from catalog index i over a progress map
NextFrom(i, progress) ==
    IF i > Len(getTasks) THEN NoTask
    ELSE IF ~MapExists(progress, getTasks[i].ID) \/ ~MapSolved(progress, getTasks[i].ID)
         THEN getTasks[i].ID
    ELSE NextFrom(i + 1, progress)

\* variant of NextTaskOf: the task at the position given by the number of
\* true entries of the map
NextTaskByCount(progress) ==
    IF Cardinality(progress.yes) >= Len(getTasks) THEN NoTask
    ELSE getTasks[Cardinality(progress.yes) + 1].ID

\* variant of NextTaskOf: the last task of the catalog that is not solved
NextTaskLast(progress) ==
    LET open == {i \in 1..Len(getTasks) :
                    ~MapExists(progress, getTasks[i].ID)
                        \/ ~MapSolved(progress, getTasks[i].ID)}
    IN  IF open = {} THEN NoTask
        ELSE getTasks[CHOOSE i \in open : \A j \in open : j <= i].ID

\* getNextTask's selection over a progress map: the task's id, NoTask for nil
NextTaskOf(progress) == NextFrom(1, progress)

RECURSIVE TrimSpace(_)
\* strings.TrimSpace over the blank " "
TrimSpace(str) ==
    IF Len(str) > 0 /\ str[1] = " " THEN TrimSpace(Tail(str))
    ELSE IF Len(str) > 0 /\ str[Len(str)] = " " THEN TrimSpace(SubSeq(str, 1, Len(str) - 1))
    ELSE str

\* variant of AnswerCorrect: the choice is trimmed before the comparison
AnswerCorrectTrimmed(choice, answer) == TrimSpace(choice) = answer

\* handleCallbackQuery: parts[1] == task.Answer
AnswerCorrect(choice, answer) == choice = answer

\* handleCallbackQuery up to answerCorrect: what the handler does with the
\* callback data: drop it, or judge the choice for the task.  A value beyond
\* the integers TLC computes with is beyond every id of the catalog, so
\* findTask returns nil for it; AtoiVal is not evaluated there.
CallbackDecision(data) ==
    LET parts == SplitN2(data)
    IN  IF Len(parts) # 2 THEN [kind |-> "drop", tid |-> NoTask]
        ELSE IF ~AtoiOk(parts[1]) THEN [kind |-> "drop", tid |-> NoTask]
        ELSE IF ~InModelRange(parts[1]) \/ findTask(AtoiVal(parts[1])) = 0
             THEN [kind |-> "drop", tid |-> NoTask]
        ELSE LET task == getTasks[findTask(AtoiVal(parts[1]))]
             IN  IF AnswerCorrect(parts[2], task.Answer)
                 THEN [kind |-> "correct", tid |-> task.ID]
                 ELSE [kind |-> "wrong", tid |-> task.ID]

(***************************************************************************)
(* The user_progress table: a bag of rows [user, task, solved].  Its       *)
(* PRIMARY KEY (user_id, task_id) is kept by the upsert, not assumed.      *)
(***************************************************************************)
Row(u, t, s) == [user |-> u, task |-> t, solved |-> s]

\* the rows of the table with this key
KeyRows(st, u, t) == {r \in BagToSet(st) : r.user = u /\ r.task = t}

\* the table without the rows with this key
WithoutKey(st, u, t) ==
    LET keep == {r \in BagToSet(st) : ~(r.user = u /\ r.task = t)}
    IN  [r \in keep |-> st[r]]

\* variant of UpsertRow: the row replaces the rows of the table
ReplaceRows(st, u, t, s) == SetToBag({Row(u, t, s)})

\* variant of UpsertRow: a plain INSERT into a table without the key
InsertRow(st, u, t, s) == st (+) SetToBag({Row(u, t, s)})

\* INSERT ... ON CONFLICT (user_id, task_id) DO UPDATE SET solved = $3
UpsertRow(st, u, t, s) == WithoutKey(st, u, t) (+) SetToBag({Row(u, t, s)})

\* the rows SELECT task_id, solved FROM user_progress WHERE user_id = $1 returns
UserRows(st, u) == {r \in BagToSet(st) : r.user = u}

\* the map getUserProgress builds from the rows it scanned
RowsMap(rows) ==
    [yes |-> {r.task : r \in {q \in rows : q.solved}},
     no |-> {r.task : r \in {q \in rows : ~q.solved}}
                \ {r.task : r \in {q \in rows : q.solved}}]

\* the tasks the table holds solved = true for the user
DurableSolved(st, u) == {r.task : r \in {q \in UserRows(st, u) : q.solved}}

(***************************************************************************)
(* State.                                                                  *)
(***************************************************************************)
VARIABLES
    variant,   \* "reconciled" (src/main.go) or "cacheonly" (src/unnamed/part_000)
    store,     \* the user_progress table (stays empty in "cacheonly")
    cache,     \* progressCache: user -> reference to a map, NoObj when absent
    heap,      \* the map[int]bool objects, by reference
    sess,      \* per handler goroutine: where it is in its handler
    outs,      \* per handler goroutine: the outbound requests of its last handler
    acked,     \* history: user -> tasks whose saveUserProgress returned nil
    seen,      \* history: the <<user, task>> pairs a monitor has noted, and the
               \* <<user, task, "before">> buttons of an earlier run in the chat
    pin,       \* argument of a function applied in isolation
    pout       \* its result, once applied

vars == <<variant, store, cache, heap, sess, outs, acked, seen, pin, pout>>

\* a nil map reference
NoObj == 0

\* references: at most one per cache entry and one per handler are live
ObjIds == 1..(NUsers + NWorkers)

\* a handler goroutine between two updates
IdleSess ==
    [pc |-> "idle", kind |-> "none", user |-> 0, tid |-> NoTask, ret |-> "none",
     snap |-> NoObj, err |-> FALSE, saveErr |-> FALSE, had |-> FALSE,
     wrote |-> FALSE]

\* an outbound request to the transport
Msg(kind, to, task, n) == [kind |-> kind, to |-> to, task |-> task, n |-> n]

\* the maps progressCache or a handler still refers to
Refs(c, s) == ({c[u] : u \in Users} \cup {s[w].snap : w \in Workers}) \ {NoObj}

\* make(map[int]bool): the lowest reference not in use
NewObj == CHOOSE o \in ObjIds : o \notin Refs(cache, sess)
                                 /\ \A p \in ObjIds : p \notin Refs(cache, sess) => o <= p

\* garbage collection: a map outside the live references is gone
Sweep(h, live) == [o \in ObjIds |-> IF o \in live THEN h[o] ELSE EmptyMap]

\* the heap after a step
Commit(h) ==
    \E live \in {Refs(cache', sess')} : heap' = Sweep(h, live)

\* progressCache.Delete(userID)
CacheDelete(c, u) == [c EXCEPT ![u] = NoObj]

\* variant of CacheStore: the entries of the other users are dropped
CacheStoreReset(c, u, o) == [v \in Users |-> IF v = u THEN o ELSE NoObj]

\* progressCache.Store(userID, progress)
CacheStore(c, u, o) == [c EXCEPT ![u] = o]

\* CREATE TABLE IF NOT EXISTS keeps the table the database has: empty on a
\* new database, else the rows an earlier run of the program has left
\* there, which are rows saveUserProgress writes (a catalog task, solved):
\* here the first task or the first two tasks of user 1, or the first task
\* of every user
StartTables ==
    {EmptyBag,
     SetToBag({Row(1, 1, TRUE)}),
     SetToBag({Row(1, 1, TRUE), Row(1, 2, TRUE)}),
     SetToBag({Row(u, 1, TRUE) : u \in Users})}

\* a number of rows no table reaches: a row for every task of every user
NoCap == Len(getTasks) * NUsers

MainInit ==
    /\ variant \in {"reconciled", "cacheonly"}
    /\ store \in IF variant = "reconciled" THEN StartTables ELSE {EmptyBag}
    /\ cache = [u \in Users |-> NoObj]
    /\ heap = [o \in ObjIds |-> EmptyMap]
    /\ sess = [w \in Workers |-> IdleSess]
    /\ outs = [w \in Workers |-> <<>>]
    /\ acked = [u \in Users |-> {}]
    /\ seen = {}

Init ==
    /\ MainInit
    /\ pin = 0
    /\ pout = 0

(***************************************************************************)
(* Updates from the transport.                                             *)
(***************************************************************************)
\* callback data: for each task the button of its answer and its first button, and two strays
FewData ==
    {CallbackData(getTasks[i].ID, getTasks[i].Answer) : i \in 1..Len(getTasks)}
        \cup {CallbackData(getTasks[i].ID, getTasks[i].Options[1]) : i \in 1..Len(getTasks)}
        \cup { <<"v", "a", "r">>, <<"9", ":", "v", "a", "r">> }

\* the buttons of the first two tasks' answers and one wrong button
TwoTaskData ==
    {CallbackData(getTasks[i].ID, getTasks[i].Answer) : i \in 1..2}
        \cup {CallbackData(getTasks[1].ID, getTasks[1].Options[1])}

Commands == {"start", "task", "progress", "help"}

\* the two commands that call getUserProgress
ReadCommands == {"progress", "task"}

(***************************************************************************)
(* processUpdates hands an update to handleCommand.  A chat is private:    *)
(* msg.Chat.ID and query.From.ID are the same identity.                    *)
(***************************************************************************)
ReceiveCommand(w, US, CS) ==
    /\ sess[w].pc = "idle"
    /\ \E u \in US, c \in CS :
        /\ sess' = [sess EXCEPT ![w] =
                CASE c \in {"task", "progress"} ->
                        [IdleSess EXCEPT !.pc = "load", !.kind = c, !.user = u,
                                         !.ret = "use"]
                  [] OTHER -> [IdleSess EXCEPT !.kind = c, !.user = u]]
        /\ outs' = [outs EXCEPT ![w] =
                CASE c = "start" -> << Msg("welcome", u, NoTask, 0) >>
                  [] c \in {"task", "progress"} -> << >>
                  [] OTHER -> << Msg("unknown", u, NoTask, 0) >>]
    /\ UNCHANGED <<variant, store, cache, acked, seen, pin, pout>>
    /\ Commit(heap)

\* the solved flags recorded so far
RecordedCount == Cardinality(UNION {{<<u, t>> : t \in acked[u]} : u \in Users})

\* handleCallbackQuery up to the evaluation of the answer
ReceiveCallback(w, US, DS, cap) ==
    /\ sess[w].pc = "idle"
    /\ \E u \in US, data \in DS :
        LET d == CallbackDecision(data)
        IN  /\ (d.kind = "correct" /\ variant = "cacheonly")
                    => (d.tid \in acked[u] \/ RecordedCount < cap)
            /\ sess' = [sess EXCEPT ![w] =
                    CASE d.kind = "drop" -> [IdleSess EXCEPT !.kind = "drop", !.user = u]
                      [] d.kind = "wrong" ->
                            [IdleSess EXCEPT !.kind = "wrong", !.user = u, !.tid = d.tid]
                      [] OTHER ->
                            [IdleSess EXCEPT !.pc = "save", !.kind = "cb", !.user = u,
                                             !.tid = d.tid]]
            /\ outs' = [outs EXCEPT ![w] =
                    IF d.kind = "wrong" THEN << Msg("ackWrong", u, d.tid, 0) >>
                    ELSE << >>]
    /\ UNCHANGED <<variant, store, cache, acked, seen, pin, pout>>
    /\ Commit(heap)

(***************************************************************************)
(* saveUserProgress of src/main.go.                                        *)
(***************************************************************************)
\* db.ExecContext: the upsert commits and nil is returned; or an error is
\* returned (failure or the 3 s timeout) with the table as it was; or an
\* error is returned although the server has committed the upsert (the
\* reply is lost, or the deadline passes after the commit)
Upsert(w, cap) ==
    /\ variant = "reconciled"
    /\ sess[w].pc = "save"
    /\ \E written \in BOOLEAN, err \in BOOLEAN :
        /\ ~written => err
        /\ written => \/ KeyRows(store, sess[w].user, sess[w].tid) # {}
                      \/ BagCardinality(store) < cap
        /\ store' = IF written THEN UpsertRow(store, sess[w].user, sess[w].tid, TRUE)
                    ELSE store
        /\ sess' = [sess EXCEPT ![w].pc = "invalidate", ![w].saveErr = err,
                                ![w].had = sess[w].tid \in DurableSolved(store, sess[w].user),
                                ![w].wrote = written]
    /\ UNCHANGED <<variant, cache, outs, acked, seen, pin, pout>>
    /\ Commit(heap)

\* variant of AfterSave: the flag is merged into the cached map, whatever
\* the upsert returned
AfterSaveMerge(c, h, u, t, err) ==
    IF c[u] # NoObj
    THEN [cache |-> c, heap |-> [h EXCEPT ![c[u]] = MapSet(@, t, TRUE)]]
    ELSE [cache |-> c, heap |-> h]

\* variant of AfterSave: the cache is left as it is
AfterSaveKeep(c, h, u, t, err) == [cache |-> c, heap |-> h]

\* the cache and the maps after the end of saveUserProgress: the entry of
\* the user is deleted, whatever the upsert returned
AfterSave(c, h, u, t, err) == [cache |-> CacheDelete(c, u), heap |-> h]

\* progressCache.Delete(userID); return err; then the handler's answer
\* to the callback
Invalidate(w) ==
    /\ sess[w].pc = "invalidate"
    /\ cache' = AfterSave(cache, heap, sess[w].user, sess[w].tid, sess[w].saveErr).cache
    /\ acked' = IF sess[w].saveErr THEN acked
                ELSE [acked EXCEPT ![sess[w].user] = @ \cup {sess[w].tid}]
    /\ outs' = [outs EXCEPT ![w] = Append(@, Msg("ackCorrect", sess[w].user, sess[w].tid, 0))]
    /\ sess' = [sess EXCEPT ![w].pc = "load", ![w].ret = "use"]
    /\ UNCHANGED <<variant, store, seen, pin, pout>>
    /\ Commit(AfterSave(cache, heap, sess[w].user, sess[w].tid, sess[w].saveErr).heap)

(***************************************************************************)
(* saveUserProgress of src/unnamed/part_000: getUserProgress, then the     *)
(* write into the map it returned, then progressCache.Store.               *)
(***************************************************************************)
SaveBegin(w) ==
    /\ variant = "cacheonly"
    /\ sess[w].pc = "save"
    /\ sess' = [sess EXCEPT ![w].pc = "load", ![w].ret = "write"]
    /\ UNCHANGED <<variant, store, cache, outs, acked, seen, pin, pout>>
    /\ Commit(heap)

\* progress[taskID] = solved
WriteMap(w) ==
    /\ sess[w].pc = "write"
    /\ sess' = [sess EXCEPT ![w].pc = "publish"]
    /\ UNCHANGED <<variant, store, cache, outs, acked, seen, pin, pout>>
    /\ Commit([heap EXCEPT ![sess[w].snap] = MapSet(@, sess[w].tid, TRUE)])

\* progressCache.Store(userID, progress); return nil; then the handler's
\* answer to the callback
Publish(w) ==
    /\ sess[w].pc = "publish"
    /\ cache' = CacheStore(cache, sess[w].user, sess[w].snap)
    /\ acked' = [acked EXCEPT ![sess[w].user] = @ \cup {sess[w].tid}]
    /\ outs' = [outs EXCEPT ![w] = Append(@, Msg("ackCorrect", sess[w].user, sess[w].tid, 0))]
    /\ sess' = [sess EXCEPT ![w].pc = "load", ![w].ret = "use", ![w].snap = NoObj]
    /\ UNCHANGED <<variant, store, seen, pin, pout>>
    /\ Commit(heap)

(***************************************************************************)
(* getUserProgress.                                                        *)
(***************************************************************************)
\* progressCache.Load: a hit returns the cached map itself; a miss goes to
\* the table (src/main.go) or makes an empty map (src/unnamed/part_000)
Load(w) ==
    /\ sess[w].pc = "load"
    /\ UNCHANGED <<variant, store, cache, outs, acked, seen, pin, pout>>
    /\ IF cache[sess[w].user] # NoObj
       THEN /\ sess' = [sess EXCEPT ![w].pc = sess[w].ret,
                                    ![w].snap = cache[sess[w].user]]
            /\ Commit(heap)
       ELSE IF variant = "reconciled"
       THEN /\ sess' = [sess EXCEPT ![w].pc = "query"]
            /\ Commit(heap)
       ELSE /\ sess' = [sess EXCEPT ![w].pc = "store", ![w].snap = NewObj]
            /\ Commit([heap EXCEPT ![NewObj] = EmptyMap])

\* what the rows.Next loop can have scanned when it ends: all the rows of
\* the user, or, when the iteration breaks off (rows.Err is not consulted),
\* only some of them
ScannedRows(st, u, partial) ==
    {UserRows(st, u)} \cup
        (IF partial THEN SUBSET UserRows(st, u) ELSE {})

\* db.QueryContext and the scan of its rows: an error (query or rows.Scan)
\* returns nil, err; otherwise the scanned rows fill a new map
Query(w, partial) ==
    /\ sess[w].pc = "query"
    /\ UNCHANGED <<variant, store, cache, outs, acked, seen, pin, pout>>
    /\ \/ /\ sess' = [sess EXCEPT ![w].pc = sess[w].ret, ![w].err = TRUE]
          /\ Commit(heap)
       \/ \E rows \in ScannedRows(store, sess[w].user, partial) :
            /\ sess' = [sess EXCEPT ![w].pc = "store", ![w].snap = NewObj]
            /\ Commit([heap EXCEPT ![NewObj] = RowsMap(rows)])

\* progressCache.Store(userID, progress); return progress, nil
StoreEntry(w) ==
    /\ sess[w].pc = "store"
    /\ cache' = CacheStore(cache, sess[w].user, sess[w].snap)
    /\ sess' = [sess EXCEPT ![w].pc = sess[w].ret]
    /\ UNCHANGED <<variant, store, outs, acked, seen, pin, pout>>
    /\ Commit(heap)

(***************************************************************************)
(* The callers of getUserProgress: getNextTask (handleTaskCommand and the  *)
(* end of handleCallbackQuery) and showProgress.                           *)
(***************************************************************************)
\* showProgress's count of the true values of the map
SolvedCount(progress) == Cardinality(progress.yes)

\* getNextTask: nil on an error of getUserProgress, else the selection
getNextTask(err, progress) == IF err THEN NoTask ELSE NextTaskOf(progress)

\* what the handler sends once getUserProgress has returned
ReplyFor(kind, u, err, progress) ==
    CASE kind = "task" ->
            IF getNextTask(err, progress) = NoTask
            THEN Msg("completed", u, NoTask, 0)
            ELSE Msg("task", u, getNextTask(err, progress), 0)
      [] kind = "cb" ->
            IF getNextTask(err, progress) = NoTask
            THEN Msg("allDone", u, NoTask, 0)
            ELSE Msg("task", u, getNextTask(err, progress), 0)
      [] OTHER ->
            IF err THEN Msg("progressError", u, NoTask, 0)
            ELSE Msg("report", u, NoTask, SolvedCount(progress))

\* variant of AfterRead: the loop leaves an entry false for every catalog
\* task it did not find in the map
AfterReadFilled(h, o) ==
    IF o = NoObj THEN h
    ELSE [h EXCEPT ![o] = [yes |-> @.yes,
                           no |-> @.no \cup ({getTasks[i].ID : i \in 1..Len(getTasks)}
                                                \ (@.yes \cup @.no))]]

\* the maps after getNextTask or showProgress has read the map o: reading a
\* key of a Go map (solved, exists := progress[id]) or ranging over it
\* leaves the map as it is
AfterRead(h, o) == h

\* getNextTask or showProgress reads the map and the handler sends its reply
Reply(w) ==
    /\ sess[w].pc = "use"
    /\ outs' = [outs EXCEPT ![w] =
            Append(@, ReplyFor(sess[w].kind, sess[w].user, sess[w].err,
                               IF sess[w].err THEN EmptyMap ELSE heap[sess[w].snap]))]
    /\ sess' = [sess EXCEPT ![w].pc = "idle", ![w].snap = NoObj]
    /\ UNCHANGED <<variant, store, cache, acked, seen, pin, pout>>
    /\ Commit(AfterRead(heap, sess[w].snap))

(***************************************************************************)
(* getUserProgress and saveUserProgress run from start to end with no      *)
(* other step in between and no store failure, on a state                  *)
(* [store, cache, heap].                                                   *)
(***************************************************************************)
StateNow == [store |-> store, cache |-> cache, heap |-> heap]

\* getUserProgress: the state it leaves and the id of the map it returns
GetAlone(S, u) ==
    IF S.cache[u] # NoObj
    THEN [state |-> S, obj |-> S.cache[u]]
    ELSE LET o == CHOOSE x \in ObjIds : x \notin Refs(S.cache, sess)
             m == IF variant = "reconciled"
                  THEN RowsMap(UserRows(S.store, u))
                  ELSE EmptyMap
         IN  [state |-> [S EXCEPT !.heap[o] = m, !.cache = CacheStore(S.cache, u, o)],
              obj |-> o]

\* the content of the map getUserProgress returns
Reported(S, u) == GetAlone(S, u).state.heap[GetAlone(S, u).obj]

\* saveUserProgress(userID, taskID, true): the state it leaves
SaveAlone(S, u, t) ==
    IF variant = "reconciled"
    THEN LET st == UpsertRow(S.store, u, t, TRUE)
             after == AfterSave(S.cache, S.heap, u, t, FALSE)
         IN  [store |-> st, cache |-> after.cache, heap |-> after.heap]
    ELSE LET g == GetAlone(S, u)
         IN  [g.state EXCEPT !.heap[g.obj] = MapSet(@, t, TRUE),
                             !.cache = CacheStore(g.state.cache, u, g.obj)]

\* what a task command that starts now would present
PresentNow(u) == getNextTask(FALSE, Reported(StateNow, u))

(***************************************************************************)
(* History: remember one task a getUserProgress has reported solved after  *)
(* its saveUserProgress returned nil.                                      *)
(***************************************************************************)
Observe(w) ==
    /\ sess[w].pc \in {"use", "write"}
    /\ ~sess[w].err
    /\ seen = {}
    /\ \E t \in heap[sess[w].snap].yes \cap acked[sess[w].user] :
            seen' = {<<sess[w].user, t>>}
    /\ UNCHANGED <<variant, store, cache, heap, sess, outs, acked,
                   pin, pout>>

(***************************************************************************)
(* Functions applied in isolation.                                         *)
(***************************************************************************)
\* keys of the progress maps handed to the selection: the catalog's ids and
\* two ids outside it
ProbeKeys == 0..(Len(getTasks) + 1)

ProbeMaps == {[yes |-> y, no |-> n] : y \in SUBSET ProbeKeys, n \in SUBSET ProbeKeys}

DispatchInit ==
    /\ MainInit
    /\ pin \in {m \in ProbeMaps : m.yes \cap m.no = {}}
    /\ pout = << >>

\* getNextTask's selection applied to the map pin
DispatchApply ==
    /\ pout = << >>
    /\ pout' = << NextTaskOf(pin) >>
    /\ UNCHANGED <<variant, store, cache, heap, sess, outs, acked, seen,
                   pin>>

DispatchSpec == DispatchInit /\ [][DispatchApply]_vars

\* choice strings: every option of the catalog, and near misses of answers
ProbeChoices ==
    UNION {{getTasks[i].Options[j] : j \in 1..4} : i \in 1..Len(getTasks)}
        \cup { <<"V", "a", "r">>, <<" ", "v", "a", "r">>, <<"v", "a", "r", " ">>,
               <<"V", "A", "R">>, <<"v", "a">>, <<"v", "a", "r", "s">>, << >>,
               <<"v", "a", "r", ":", "x">>, <<":", "v", "a", "r">>,
               <<"v", "a", "r", ":">>, <<"I", "n", "t">>, <<" ", "i", "n", "t">>,
               <<"2", " ">>, <<" ", "2">>, <<"S", "t", "r", "i", "n", "g">>,
               <<"I", "m", "p", "o", "r", "t">> }

\* what can stand before the first ":" of callback data
ProbeIdParts ==
    {Itoa(n) : n \in 0..(Len(getTasks) + 1)}
        \cup { << >>, <<"x">>, <<"0", "1">>, <<"+", "1">>, <<"-", "1">>, <<"1", " ">>,
               <<"1", "2">>,
               <<"0">> \o MaxIntDigits, MaxIntDigits, MinIntDigits,
               <<"-">> \o MinIntDigits, <<"-">> \o MaxIntDigits \o <<"0">>,
               <<"1">> \o MaxIntDigits, <<"1", "0", "0", "0", "0", "0", "0", "0", "0", "1">> }

ProbeData ==
    {idp \o <<":">> \o c : idp \in ProbeIdParts, c \in ProbeChoices}
        \cup ProbeChoices

EvalInit ==
    /\ MainInit
    /\ pin \in ProbeData
    /\ pout = 0

\* handleCallbackQuery receives the callback data pin
EvalNext == ReceiveCallback(1, {1}, {pin}, NoCap)

EvalSpec == EvalInit /\ [][EvalNext]_vars

(***************************************************************************)
(* Specifications.                                                         *)
(***************************************************************************)
\* the steps of the handler goroutine w, for updates of the users US with
\* the commands CS and the callback data DS
Handler(w, US, CS, DS, partial, cap) ==
    \/ ReceiveCommand(w, US, CS)
    \/ ReceiveCallback(w, US, DS, cap)
    \/ Upsert(w, cap)
    \/ Invalidate(w)
    \/ SaveBegin(w)
    \/ WriteMap(w)
    \/ Publish(w)
    \/ Load(w)
    \/ Query(w, partial)
    \/ StoreEntry(w)
    \/ Reply(w)

\* processUpdates: one goroutine takes the updates one after the other
Next == Handler(1, Users, Commands, FewData, TRUE, MaxRows)

Spec == Init /\ [][Next]_vars

\* the buttons of the answers of the first two tasks
TwoAnswers == {CallbackData(getTasks[i].ID, getTasks[i].Answer) : i \in 1..2}

\* the same with the answer buttons of two tasks and the progress command
SaveNext == Handler(1, Users, {"progress"}, TwoAnswers, TRUE, MaxRows)

SaveSpec == Init /\ [][SaveNext]_vars

\* the same for the updates of one user
IdemNext == Handler(1, {1}, {"progress"}, TwoAnswers, TRUE, MaxRows)

IdemSpec == Init /\ [][IdemNext]_vars

\* the same with the buttons of two tasks and every command, where every
\* SELECT that succeeds returns all the rows
CmdNext == Handler(1, Users, Commands, TwoTaskData, FALSE, MaxRows)

CmdSpec == Init /\ [][CmdNext]_vars

\* callback data that is no "<catalog id>:<choice>": without ":", with a part
\* before the first ":" that is no integer or no int, or with an id the
\* catalog lacks
MalformedData ==
    { <<"v", "a", "r">>,
      <<"1">> \o MaxIntDigits \o <<":", "v", "a", "r">>,
      <<"x", ":", "v", "a", "r">>,
      <<":", "v", "a", "r">>,
      <<"1", " ", ":", "v", "a", "r">>,
      <<"9", ":", "v", "a", "r">> }

\* the same where the user also sends one malformed token, pin
DropInit ==
    /\ MainInit
    /\ pin \in MalformedData
    /\ pout = 0

DropNext ==
    Handler(1, Users, {"task"},
            {CallbackData(getTasks[1].ID, getTasks[1].Answer)} \cup {pin}, TRUE, MaxRows)

DropSpec == DropInit /\ [][DropNext]_vars

\* the same for one user with the commands that read the progress and the
\* buttons of two tasks, with the history of reported tasks
MonNext == Handler(1, {1}, ReadCommands, TwoTaskData, TRUE, NoCap) \/ Observe(1)

MonSpec == Init /\ [][MonNext]_vars

\* the steps of the handler goroutine w while the store is available: the
\* upsert commits and the SELECT returns all the rows
AvailHandler(w, US, CS, DS, cap) ==
    \/ ReceiveCommand(w, US, CS)
    \/ ReceiveCallback(w, US, DS, cap)
    \/ Upsert(w, cap) /\ ~sess'[w].saveErr
    \/ Invalidate(w)
    \/ SaveBegin(w)
    \/ WriteMap(w)
    \/ Publish(w)
    \/ Load(w)
    \/ Query(w, FALSE) /\ ~sess'[w].err
    \/ StoreEntry(w)
    \/ Reply(w)

\* one user's session with the store available
AvailNext == AvailHandler(1, {1}, Commands, FewData, NoCap)

AvailSpec == Init /\ [][AvailNext]_vars

\* the steps of a running handler of w while the store is available
Running(w) ==
    \/ Upsert(w, NoCap) /\ ~sess'[w].saveErr
    \/ Invalidate(w)
    \/ SaveBegin(w)
    \/ WriteMap(w)
    \/ Publish(w)
    \/ Load(w)
    \/ Query(w, FALSE) /\ ~sess'[w].err
    \/ StoreEntry(w)
    \/ Reply(w)

\* the user presses the button of the answer of the task a task command
\* would present
CorrectPresented(w, u) ==
    /\ PresentNow(u) # NoTask
    /\ ReceiveCallback(w, {u},
            {CallbackData(PresentNow(u), getTasks[findTask(PresentNow(u))].Answer)},
            NoCap)

\* one user's session with the store available: any command, the buttons
\* of two tasks at any time, and the button of the answer of the presented
\* task
LiveNext ==
    \/ AvailHandler(1, {1}, Commands, TwoTaskData, NoCap)
    \/ CorrectPresented(1, 1)

\* this session where a started handler runs to its end and the user keeps
\* answering the presented task correctly
LiveSpec ==
    /\ Init
    /\ [][LiveNext]_vars
    /\ WF_vars(Running(1))
    /\ SF_vars(CorrectPresented(1, 1))

\* the answer buttons of all tasks and one wrong button
AnswerData ==
    {CallbackData(getTasks[i].ID, getTasks[i].Answer) : i \in 1..Len(getTasks)}
        \cup {CallbackData(getTasks[1].ID, getTasks[1].Options[1])}

\* history: note a task the last handler of w has presented, unless its
\* button is in the chat already
NotePresented(w) ==
    /\ sess[w].pc = "idle"
    /\ \E i \in 1..Len(outs[w]) :
            /\ outs[w][i].kind = "task"
            /\ <<outs[w][i].to, outs[w][i].task>> \notin seen
            /\ <<outs[w][i].to, outs[w][i].task, "before">> \notin seen
            /\ seen' = seen \cup {<<outs[w][i].to, outs[w][i].task>>}
    /\ UNCHANGED <<variant, store, cache, heap, sess, outs, acked,
                   pin, pout>>

\* the steps of the handler goroutine w where a callback carries the button
\* of a task that has been presented to the user and noted
PresentedHandler(w, US, CS, DS, partial, cap) ==
    \/ ReceiveCommand(w, US, CS)
    \/ /\ ReceiveCallback(w, US, DS, cap)
       /\ sess'[w].tid # NoTask =>
                \/ <<sess'[w].user, sess'[w].tid>> \in seen
                \/ <<sess'[w].user, sess'[w].tid, "before">> \in seen
    \/ Upsert(w, cap)
    \/ Invalidate(w)
    \/ SaveBegin(w)
    \/ WriteMap(w)
    \/ Publish(w)
    \/ Load(w)
    \/ Query(w, partial)
    \/ StoreEntry(w)
    \/ Reply(w)

\* one user who presses only buttons of tasks presented before, with store
\* failures
PresentedNext ==
    \/ PresentedHandler(1, {1}, ReadCommands, AnswerData, TRUE, NoCap)
    \/ NotePresented(1)

\* the task messages of an earlier run whose record of solved tasks was the
\* table st, still in the chat: for each user the tasks whose predecessors
\* in the catalog were all solved
PresentedBefore(st) ==
    {<<q[1], getTasks[q[2]].ID, "before">> :
        q \in {p \in Users \X (1..Len(getTasks)) :
                \A j \in 1..(p[2] - 1) : getTasks[j].ID \in DurableSolved(st, p[1])}}

\* the buttons of an earlier run in the chat when the process starts
OldButtons == {p \in seen : Len(p) = 3}

\* the same start, where the chat may still hold the task messages of an
\* earlier run: the table keeps what that run recorded (src/main.go), the
\* progressCache of src/unnamed/part_000 is process memory and starts
\* empty whatever that run had recorded
PresentedInit ==
    /\ variant \in {"reconciled", "cacheonly"}
    /\ store \in IF variant = "reconciled" THEN StartTables ELSE {EmptyBag}
    /\ cache = [u \in Users |-> NoObj]
    /\ heap = [o \in ObjIds |-> EmptyMap]
    /\ sess = [w \in Workers |-> IdleSess]
    /\ outs = [w \in Workers |-> <<>>]
    /\ acked = [u \in Users |-> {}]
    /\ seen \in {{}} \cup (IF variant = "reconciled" THEN {PresentedBefore(store)}
                          ELSE {PresentedBefore(st) : st \in StartTables})
    /\ pin = 0
    /\ pout = 0

PresentedSpec == PresentedInit /\ [][PresentedNext]_vars

(***************************************************************************)
(* Properties.                                                             *)
(***************************************************************************)
\* the catalog positions whose task is unsolved in a map: its id is absent
\* from the map or mapped to false
UnsolvedAt(m) ==
    {i \in 1..Len(getTasks) :
        getTasks[i].ID \notin (m.yes \cup m.no) \/ getTasks[i].ID \in m.no}

\* C6 (dispatch determinism): for every progress map the selection returns
\* the first task in catalog order whose id is absent from the map or
\* mapped to false, and nil exactly when every catalog task is mapped to
\* true; with tasks 1..k solved and the rest unsolved it returns task k+1.
DispatchDeterminism ==
    pout # << >> =>
        /\ IF UnsolvedAt(pin) = {}
           THEN pout[1] = NoTask
           ELSE \E i \in UnsolvedAt(pin) :
                    /\ pout[1] = getTasks[i].ID
                    /\ \A j \in UnsolvedAt(pin) : i <= j
        /\ (pout[1] = NoTask) <=> (CatalogIds \subseteq pin.yes)
        /\ \A k \in 0..(Len(getTasks) - 1) :
                (pin.yes \cap CatalogIds = 1..k) => pout[1] = k + 1

\* C6 witness: tasks 1 and 2 solved, task 3 mapped to false, 4 solved: task 3
DispatchWitness ==
    /\ pout = << 3 >>
    /\ pin.yes = {1, 2, 4}
    /\ pin.no = {3}

\* C10 (strict evaluation): for callback data "<T.ID>:<s>" of a catalog
\* task T the handler records the task solved (goes on to saveUserProgress
\* for T) if and only if s is exactly T.Answer, and otherwise answers
\* "wrong" and records nothing; saveUserProgress is entered only for data
\* whose part after the first ":" is the answer of the task.
StrictEvaluation ==
    sess[1].kind # "none" =>
        /\ \A i \in 1..Len(getTasks), c \in ProbeChoices :
                pin = CallbackData(getTasks[i].ID, c) =>
                    IF c = getTasks[i].Answer
                    THEN /\ sess[1].pc = "save"
                         /\ sess[1].tid = getTasks[i].ID
                    ELSE /\ sess[1].pc = "idle"
                         /\ sess[1].kind = "wrong"
                         /\ outs[1] = << Msg("ackWrong", 1, getTasks[i].ID, 0) >>
        /\ sess[1].pc = "save" =>
                \E i \in 1..Len(getTasks), idp \in ProbeIdParts :
                    /\ pin = idp \o <<":">> \o getTasks[i].Answer
                    /\ sess[1].tid = getTasks[i].ID

\* C10 witness: " var" for task 1 has been judged wrong
StrictEvaluationWitness ==
    /\ pin = CallbackData(1, <<" ", "v", "a", "r">>)
    /\ sess[1].kind = "wrong"
    /\ sess[1].pc = "idle"

\* the kinds of the outbound requests of the last handler of w
OutKinds(w) == {outs[w][i].kind : i \in 1..Len(outs[w])}

\* C7 (read failure surfaced): a handler whose getUserProgress failed has
\* sent the failure message and neither a completion message nor a task.
ReadFailureSurfaced ==
    \A w \in Workers :
        (sess[w].pc = "idle" /\ sess[w].err) =>
            /\ "progressError" \in OutKinds(w)
            /\ OutKinds(w) \cap {"completed", "allDone", "task"} = {}

\* C2 (cache-store coherence): in src/main.go, when the upsert of task T
\* inside saveUserProgress fails (it returns an error and the row is not
\* written) and the table did not hold T solved before, the getUserProgress
\* that follows does not report T as solved, whatever the cache held; and
\* no getUserProgress that returns a map reports a task the table does not
\* hold solved.
FailedWriteNotReported ==
    variant = "reconciled" =>
        \A w \in Workers :
            (sess[w].pc = "use" /\ ~sess[w].err) =>
                /\ (sess[w].kind = "cb" /\ sess[w].saveErr /\ ~sess[w].wrote
                        /\ ~sess[w].had)
                    => sess[w].tid \notin heap[sess[w].snap].yes
                /\ heap[sess[w].snap].yes \subseteq DurableSolved(store, sess[w].user)

\* C2 witness: the upsert of a task the table did not hold solved has
\* failed without a commit, and the getUserProgress that follows has
\* returned a map that holds another task but not this one
FailedWriteWitness ==
    \E w \in Workers :
        /\ variant = "reconciled"
        /\ sess[w].kind = "cb"
        /\ sess[w].saveErr
        /\ ~sess[w].wrote
        /\ ~sess[w].had
        /\ sess[w].pc = "use"
        /\ ~sess[w].err
        /\ heap[sess[w].snap].yes # {}
        /\ sess[w].tid \notin heap[sess[w].snap].yes

\* the step of w that ends a saveUserProgress whose upsert failed
FailedSaveEnds(w) ==
    /\ sess[w].pc = "invalidate"
    /\ sess[w].saveErr
    /\ sess'[w].pc = "load"

\* C8 counterexample (frame on a failed write): when the upsert fails the
\* cache is left exactly as it was, for the user and for all other users.
CacheUnchangedOnFailedWrite ==
    [][\A w \in Workers : FailedSaveEnds(w) => cache' = cache]_vars

\* C4 (I2): in src/main.go a cached map of a user holds every task whose
\* saveUserProgress has returned nil for that user.
CacheCoversAcked ==
    variant = "reconciled" =>
        \A u \in Users : cache[u] # NoObj => acked[u] \subseteq heap[cache[u]].yes

\* C1 counterexample (no regression): a getUserProgress never returns a map
\* without a task that an earlier getUserProgress of the user reported
\* solved after its saveUserProgress had returned nil.
NoRegression ==
    \A w \in Workers :
        (sess[w].pc = "use" /\ ~sess[w].err) =>
            \A p \in seen :
                p[1] = sess[w].user => p[2] \in heap[sess[w].snap].yes

\* C3 counterexample (no lost update): once saveUserProgress has returned
\* nil for two different tasks of a user, in either order, every later
\* getUserProgress of the user that returns a map reports both tasks
\* solved.
NoLostUpdate ==
    \A w \in Workers :
        (sess[w].pc = "use" /\ ~sess[w].err) =>
            \A t1 \in acked[sess[w].user] : \A t2 \in acked[sess[w].user] \ {t1} :
                {t1, t2} \subseteq heap[sess[w].snap].yes

\* C5 (idempotent write): from every state, for every user and task,
\* saveUserProgress twice in succession leaves the same table and the same
\* map reported by getUserProgress as saveUserProgress once, with the task
\* solved and exactly one row (one map entry) for it; and a save the
\* program has carried out for a task already recorded leaves exactly one
\* row for it, solved.
IdempotentWrite ==
    /\ \A u \in Users : \A t \in CatalogIds :
            LET once == SaveAlone(StateNow, u, t)
                twice == SaveAlone(once, u, t)
            IN  /\ twice.store = once.store
                /\ Reported(twice, u) = Reported(once, u)
                /\ MapSolved(Reported(twice, u), t)
                /\ t \notin Reported(twice, u).no
                /\ variant = "reconciled" =>
                        /\ KeyRows(twice.store, u, t) = {Row(u, t, TRUE)}
                        /\ CopiesIn(Row(u, t, TRUE), twice.store) = 1
    /\ \A w \in Workers :
            (sess[w].pc = "invalidate" /\ ~sess[w].saveErr) =>
                /\ KeyRows(store, sess[w].user, sess[w].tid)
                        = {Row(sess[w].user, sess[w].tid, TRUE)}
                /\ CopiesIn(Row(sess[w].user, sess[w].tid, TRUE), store) = 1

\* C5 witness: the upsert of a task the user had already recorded has
\* succeeded
IdempotentWriteWitness ==
    \E w \in Workers :
        /\ sess[w].pc = "invalidate"
        /\ ~sess[w].saveErr
        /\ sess[w].tid \in acked[sess[w].user]

OutsideKeys == ProbeKeys \ CatalogIds

\* C14 (I3, inert entries): the selection over a map is the selection over
\* any map that agrees with it on the catalog ids and differs in entries
\* for other ids, and it is a catalog task or nil.
InertEntries ==
    pout # << >> =>
        /\ pout[1] \in CatalogIds \cup {NoTask}
        /\ \A y \in SUBSET OutsideKeys : \A n \in SUBSET (OutsideKeys \ y) :
                NextTaskOf([yes |-> (pin.yes \cap CatalogIds) \cup y,
                            no |-> (pin.no \cap CatalogIds) \cup n]) = pout[1]

\* C14 witness: a map with task 1 solved, a true entry for id 6 and a false
\* entry for id 0 has given task 2
InertEntriesWitness ==
    /\ pout = << 2 >>
    /\ pin.yes = {1, 6}
    /\ pin.no = {0}

\* C13 (malformed interaction): the handler drops the malformed token pin,
\* and a handler that drops its token sends nothing, reads and writes no
\* row, leaves the cache and the maps as they were and ends at once, with
\* the process ready for the next update.
MalformedDropped ==
    [][/\ CallbackDecision(pin).kind = "drop"
       /\ \A w \in Workers :
            (sess[w].pc = "idle" /\ sess'[w] # sess[w] /\ sess'[w].kind = "drop") =>
                /\ outs'[w] = << >>
                /\ store' = store
                /\ cache' = cache
                /\ heap' = heap
                /\ acked' = acked
                /\ sess'[w].pc = "idle"]_vars

\* C13 witness: a token has been dropped while the table has a row and the
\* cache holds a map with a solved task
MalformedDroppedWitness ==
    \E w \in Workers :
        /\ sess[w].kind = "drop"
        /\ sess[w].pc = "idle"
        /\ outs[w] = << >>
        /\ store # EmptyBag
        /\ \E u \in Users : cache[u] # NoObj /\ heap[cache[u]].yes # {}

\* the handlers that are no correct answer: commands, wrong choices, drops
NoWriteKinds == {"start", "task", "progress", "help", "wrong", "drop"}

\* C12 (write only on a correct answer): a step of a handler of a command
\* or of a wrong choice is no upsert, leaves the table as it was, and
\* leaves every cache entry that is present, and the map it refers to, as
\* they were; it can only populate an absent entry.
WriteOnlyOnCorrect ==
    [][\A w \in Workers :
            (sess'[w] # sess[w] /\ sess'[w].kind \in NoWriteKinds) =>
                /\ sess'[w].pc \notin {"save", "invalidate", "write", "publish"}
                /\ sess[w].pc \notin {"save", "invalidate", "write", "publish"}
                /\ store' = store
                /\ acked' = acked
                /\ \A u \in Users :
                        cache[u] # NoObj =>
                            /\ cache'[u] = cache[u]
                            /\ heap'[cache[u]] = heap[cache[u]]]_vars

\* C12 witness: a wrong choice has been answered while the table has a row
\* and the cache holds a map with a solved task
WriteOnlyOnCorrectWitness ==
    \E w \in Workers :
        /\ sess[w].kind = "wrong"
        /\ sess[w].pc = "idle"
        /\ OutKinds(w) = {"ackWrong"}
        /\ store # EmptyBag
        /\ \E u \in Users : cache[u] # NoObj /\ heap[cache[u]].yes # {}

\* C15 counterexample (complete population): in src/main.go the map a
\* getUserProgress stores in the cache on a miss holds exactly the rows the
\* table has for the user.
CompletePopulation ==
    [][\A w \in Workers :
            (variant = "reconciled" /\ sess[w].pc = "store" /\ sess'[w].pc # "store") =>
                /\ cache'[sess[w].user] # NoObj
                /\ heap'[cache'[sess[w].user]] = RowsMap(UserRows(store, sess[w].user))]_vars

\* the tasks recorded solved for the user: the rows of the table in
\* src/main.go, the cached map in src/unnamed/part_000
RecordOf(st, c, h, u) ==
    IF variant = "reconciled" THEN DurableSolved(st, u)
    ELSE IF c[u] = NoObj THEN {}
    ELSE h[c[u]].yes

\* C16 (monotonic flags): no step removes a task from the tasks recorded
\* solved for a user or records it false.
MonotonicFlags ==
    [][\A u \in Users :
            /\ RecordOf(store, cache, heap, u) \subseteq RecordOf(store', cache', heap', u)
            /\ \A t \in RecordOf(store, cache, heap, u) :
                    /\ Row(u, t, FALSE) \notin BagToSet(store')
                    /\ cache'[u] # NoObj => t \notin heap'[cache'[u]].no]_vars

\* C16 witness: a user has two tasks recorded solved and a handler of a
\* correct answer has ended
MonotonicFlagsWitness ==
    \E w \in Workers :
        /\ sess[w].kind = "cb"
        /\ sess[w].pc = "idle"
        /\ Cardinality(RecordOf(store, cache, heap, sess[w].user)) = 2

\* the handler w has come back from its saveUserProgress
PastSave(w) ==
    /\ sess[w].kind = "cb"
    /\ \/ sess[w].pc \in {"use", "idle"}
       \/ sess[w].pc \in {"load", "query", "store"} /\ sess[w].ret = "use"

\* C17 (cache-only write): in src/unnamed/part_000, from every state and
\* for every user and task, saveUserProgress leaves the user with a cached
\* map (the one cached before, if any) that is the map getUserProgress
\* would have reported with the task set true and nothing else changed,
\* leaves the other users' entries and maps as they were, and the next
\* getUserProgress reports the task solved; and a saveUserProgress the
\* program has carried out returned nil with the task in the cached map.
CacheOnlyWrite ==
    variant = "cacheonly" =>
        /\ \A u \in Users : \A t \in CatalogIds :
                LET before == Reported(StateNow, u)
                    after == SaveAlone(StateNow, u, t)
                IN  /\ after.cache[u] # NoObj
                    /\ cache[u] # NoObj => after.cache[u] = cache[u]
                    /\ after.heap[after.cache[u]].yes = before.yes \cup {t}
                    /\ after.heap[after.cache[u]].no = before.no \ {t}
                    /\ cache[u] = NoObj => before = EmptyMap
                    /\ after.store = store
                    /\ \A v \in Users \ {u} :
                            /\ after.cache[v] = cache[v]
                            /\ cache[v] # NoObj => after.heap[cache[v]] = heap[cache[v]]
                    /\ MapSolved(Reported(after, u), t)
        /\ \A w \in Workers :
                PastSave(w) =>
                    /\ ~sess[w].saveErr
                    /\ sess[w].tid \in acked[sess[w].user]
                    /\ cache[sess[w].user] # NoObj
                    /\ sess[w].tid \in heap[cache[sess[w].user]].yes

\* C17 witness: in src/unnamed/part_000 a second task of a user has been
\* saved while another user has a cached map
CacheOnlyWriteWitness ==
    \E w \in Workers :
        /\ variant = "cacheonly"
        /\ PastSave(w)
        /\ sess[w].pc = "load"
        /\ Cardinality(heap[cache[sess[w].user]].yes) = 2
        /\ \E v \in Users \ {sess[w].user} : cache[v] # NoObj

\* C20 counterexample (reported count): a report showProgress has sent
\* carries the number of catalog tasks recorded solved for the user, and
\* at most the size of the catalog.
ReportedCountExact ==
    \A w \in Workers :
        (sess[w].kind = "progress" /\ sess[w].pc = "idle" /\ ~sess[w].err) =>
            /\ Len(outs[w]) = 1
            /\ outs[w][1].kind = "report"
            /\ outs[w][1].n
                    = Cardinality(RecordOf(store, cache, heap, sess[w].user) \cap CatalogIds)
            /\ outs[w][1].n <= Len(getTasks)

\* the first catalog task outside the set of solved tasks, NoTask when none
FirstUnsolved(solved) ==
    IF \A i \in 1..Len(getTasks) : getTasks[i].ID \in solved THEN NoTask
    ELSE getTasks[CHOOSE i \in 1..Len(getTasks) :
                    /\ getTasks[i].ID \notin solved
                    /\ \A j \in 1..(i - 1) : getTasks[j].ID \in solved].ID

\* the requests a finished handler has sent, given the tasks recorded solved
SessionReplies(w) ==
    LET u == sess[w].user
        solved == RecordOf(store, cache, heap, u)
        next == FirstUnsolved(solved)
    IN  /\ sess[w].kind = "task" =>
                /\ outs[w] = << IF next = NoTask THEN Msg("completed", u, NoTask, 0)
                                ELSE Msg("task", u, next, 0) >>
                /\ solved = {} => outs[w] = << Msg("task", u, 1, 0) >>
        /\ sess[w].kind = "wrong" =>
                outs[w] = << Msg("ackWrong", u, sess[w].tid, 0) >>
        /\ sess[w].kind = "cb" =>
                /\ sess[w].tid \in solved
                /\ outs[w] = << Msg("ackCorrect", u, sess[w].tid, 0),
                                IF next = NoTask THEN Msg("allDone", u, NoTask, 0)
                                ELSE Msg("task", u, next, 0) >>
                /\ \A k \in 1..Len(getTasks) :
                        (solved = 1..k /\ sess[w].tid = k) =>
                            outs[w][2] = IF k = Len(getTasks)
                                         THEN Msg("allDone", u, NoTask, 0)
                                         ELSE Msg("task", u, k + 1, 0)
        /\ sess[w].kind = "progress" =>
                /\ outs[w] = << Msg("report", u, NoTask, Cardinality(solved)) >>
                /\ Cardinality(solved) = 1 => outs[w][1].n = 1
        /\ PresentNow(u) = next

\* C11 (session sequencing, store available): every finished handler has
\* sent what the tasks recorded solved call for: a task command the first
\* unsolved task (task 1 from empty progress) or the completion message, a
\* correct choice for task k with 1..k solved the acknowledgement and task
\* k+1 (the completion message for the last task), a progress command the
\* count; the next task command would present the same; and a wrong choice
\* leaves what the next task command presents as it was.
SessionSequencing ==
    [][\A w \in Workers :
            /\ sess'[w].pc = "idle" /\ sess'[w].user # 0 => SessionReplies(w)'
            /\ (sess[w].pc = "idle" /\ sess'[w] # sess[w] /\ sess'[w].kind = "wrong") =>
                    \A u \in Users :
                        u = sess'[w].user =>
                            /\ PresentNow(u)' = PresentNow(u)
                            /\ RecordOf(store, cache, heap, u)'
                                    = RecordOf(store, cache, heap, u)]_vars

\* C11 witness: with tasks 1 and 2 solved, the handler of the correct
\* choice for task 2 has presented task 3
SessionSequencingWitness ==
    /\ sess[1].kind = "cb"
    /\ sess[1].pc = "idle"
    /\ sess[1].tid = 2
    /\ RecordOf(store, cache, heap, 1) = {1, 2}
    /\ outs[1] = << Msg("ackCorrect", 1, 2, 0), Msg("task", 1, 3, 0) >>

\* every catalog task is recorded solved for user 1
AllSolved == CatalogIds \subseteq RecordOf(store, cache, heap, 1)

\* between handlers a task command would present nothing, and a finished
\* task command has sent the completion message and no task
NoPresentation ==
    (\A w \in Workers : sess[w].pc = "idle") =>
        /\ PresentNow(1) = NoTask
        /\ \A w \in Workers :
                sess[w].kind = "task" =>
                    outs[w] = << Msg("completed", 1, NoTask, 0) >>

\* C18 (completion reached and stable): with the store available and the
\* user answering each presented task correctly, every task gets recorded
\* solved, and from then on everything stays solved, a task command would
\* present nothing and each finished task command has sent the completion
\* message.
CompletionStable ==
    /\ <>AllSolved
    /\ [](AllSolved => [](AllSolved /\ NoPresentation))

\* C18 witness: with everything solved a task command has answered with
\* the completion message
CompletionStableWitness ==
    /\ AllSolved
    /\ sess[1].kind = "task"
    /\ sess[1].pc = "idle"
    /\ outs[1] = << Msg("completed", 1, NoTask, 0) >>

\* the ids of the first k tasks of the catalog
CatalogPrefix(k) == {getTasks[i].ID : i \in 1..k}

\* C19 as stated (prefix): when every choice is for a task presented to the
\* user before, in every state the tasks recorded solved for a user are the
\* first k tasks of the catalog for some k.
PrefixSolved ==
    \A u \in Users :
        \E k \in 0..Len(getTasks) : RecordOf(store, cache, heap, u) = CatalogPrefix(k)

\* C19 as amended: the same, where in src/unnamed/part_000 every choice is
\* for a task presented since the process started (no button of an earlier
\* run is pressed: none is in the chat).
PrefixSolvedInLifetime ==
    (variant = "cacheonly" => OldButtons = {}) =>
        \A u \in Users :
            \E k \in 0..Len(getTasks) :
                RecordOf(store, cache, heap, u) = CatalogPrefix(k)

\* C19 witness: in src/main.go, started from the table with tasks 1 and 2
\* solved, the button of task 3 left by the earlier run is pressed before
\* this run has presented task 3, and its upsert has committed
PrefixSolvedWitness ==
    /\ variant = "reconciled"
    /\ sess[1].kind = "cb"
    /\ sess[1].tid = 3
    /\ sess[1].pc = "invalidate"
    /\ sess[1].wrote
    /\ <<1, 3>> \notin seen
    /\ <<1, 3, "before">> \in seen
    /\ RecordOf(store, cache, heap, 1) = {1, 2, 3}
====
